---------------------------- MODULE Spec2Model ----------------------------
(***************************************************************************)
(* Model of the asynchronous services of the AI-powered file explorer:     *)
(*   - AsyncRateLimiter   (src/src/services/ai_service.py)                 *)
(*   - AIService          (src/src/services/ai_service.py)                 *)
(*   - MainWindow slots   (src/src/ui/main_window.py)                      *)
(*   - FileSystemService  (src/src/services/file_system.py)                *)
(*                                                                         *)
(* Coroutines run on one asyncio loop: a coroutine runs without            *)
(* interruption from one suspension point (a network await, a sleep, a     *)
(* contended lock) to the next, so each action below is one such segment.  *)
(***************************************************************************)
EXTENDS Integers, Sequences, FiniteSets, TLC

----------------------------------------------------------------------------
(* Bounds of the model *)

\* requests_per_minute given to the limiter under study
Capacity == 2
\* resolution of the wall clock: ticks per minute; asyncio.sleep(0.1) takes
\* at least one tick
TicksPerMinute == 4
\* the wall clock stops advancing here
MaxClock == 5
\* concurrent direct callers of acquire()
NumCallers == 2
\* acquire() returns that are recorded
MaxAcquires == 4
\* process_command calls per behaviour
MaxCmds == 3
\* asyncio.sleep(0.1): the least number of ticks a sleep lasts
SleepTicks == 1

None == "None"

Min2(a, b) == IF a <= b THEN a ELSE b

RECURSIVE Join(_)
\* "".join(parts)
Join(parts) == IF parts = <<>> THEN "" ELSE Head(parts) \o Join(Tail(parts))

----------------------------------------------------------------------------
VARIABLES
    \* ---- wall clock
    clock,
    \* ---- AsyncRateLimiter
    tokens,         \* self.tokens, in units of 1/TicksPerMinute token
    last_update,    \* self.last_update
    lockHolder,     \* self._lock: 0 when free, else the caller inside
    waitQ,          \* self._lock's FIFO of waiters
    acq,            \* per caller: position in acquire() and its locals
    acqLog,         \* history: one record per direct acquire() that returned
    ledger,         \* history: what the direct callers' acquire() calls
                    \* credited to the balance, and how many returned
    \* ---- AIService
    isInit,         \* self._is_initialized
    context,        \* self.context
    cmd,            \* the process_command call in flight (or the last one)
    trace,          \* notifications and outcome of that call, in order
    ncalls,         \* number of process_command calls so far
    ctxArgs,        \* the arguments of the last update_context call
    \* ---- MainWindow
    current_path,   \* self.current_path
    selected_files, \* self.selected_files
    uiRequested,    \* a slot has asked for a context update since the last
                    \* completed update_context
    \* ---- FileSystemService
    disk,           \* the file system: path -> entry
    perm,           \* the access the process has to each entry
    metadata_cache, \* self.metadata_cache
    fsResult,       \* the last FileSystemService call and its outcome
    lister,         \* the list_directory generator being consumed
    \* ---- FileSystemService: monitoring
    observer,        \* self.observer: its thread and the watches it holds
    monitored_paths, \* self.monitored_paths
    fsIsInit,        \* self._is_initialized
    monResult,       \* the last lifecycle or monitoring call and its outcome
    lastEvent        \* the last change the handler was told of

limVars == <<tokens, last_update, lockHolder, waitQ, acq, acqLog, ledger>>
aiVars  == <<isInit, context, cmd, trace, ncalls, ctxArgs>>
uiVars  == <<current_path, selected_files, uiRequested>>
monVars == <<observer, monitored_paths, fsIsInit, monResult, lastEvent>>
fsVarsNoMon == <<disk, perm, metadata_cache, fsResult, lister>>
fsVars  == <<fsVarsNoMon, monVars>>
vars    == <<clock, limVars, aiVars, uiVars, fsVars>>

----------------------------------------------------------------------------
(* AsyncRateLimiter *)

\* callers of acquire(): 0 is AIService.process_command, the others call
\* the limiter directly
CmdCaller == 0
Callers == 1..NumCallers
AllCallers == {CmdCaller} \cup Callers

\* one whole token, in the units of `tokens`
TokenUnit == TicksPerMinute

IdleAcq == [pc |-> "idle", now |-> 0, slept |-> FALSE, calledAt |-> 0]

\* AsyncRateLimiter.__init__
LimiterInit ==
    /\ tokens = Capacity * TokenUnit
    /\ last_update = 0
    /\ lockHolder = 0
    /\ waitQ = <<>>
    /\ acq = [p \in AllCallers |-> IdleAcq]
    /\ acqLog = <<>>
    /\ ledger = [refilled |-> 0, returned |-> 0]

\* line 226-229 without min(self.rate_limit, ...)
Refill_Uncapped(bal, lu, now) == bal + (now - lu) * Capacity

\* line 225 with no time counted as passed
Refill_NoCredit(bal, lu, now) == Min2(Capacity * TokenUnit, bal)

\* line 225-229: the balance after one refill computed at `now` from `lu`
Refill(bal, lu, now) ==
    Min2(Capacity * TokenUnit, bal + (now - lu) * Capacity)

\* the while loop run from a suspension point to the next one, at time
\* `clock`, with `lu` the value last_update has when the segment starts:
\* the balance it reaches before it sleeps or spends
SegTokens(lu) == IF tokens > 0 THEN tokens ELSE Refill(tokens, lu, clock)

\* line 223 / 230: the loop is left (no sleep) iff the balance is positive
MayProceed(bal) == bal > 0

SegReturns(lu) == MayProceed(SegTokens(lu))

\* the lock given up for the time of the sleep
HeldWhileAsleep_Released(p) == 0

\* line 222, 231: asyncio.sleep is awaited inside `async with self._lock`,
\* the sleeping caller keeps the lock
HeldWhileAsleep(p) == p

\* the ledger after a segment of caller p that started at balance `bal`
Booked(p, bal, lu, returns) ==
    IF p \in Callers
    THEN [refilled |-> ledger.refilled + (SegTokens(lu) - bal),
          returned |-> ledger.returned + (IF returns THEN 1 ELSE 0)]
    ELSE ledger

\* one segment of acquire() inside the critical section
Segment(p, lu, calledAt, slept) ==
    /\ ledger' = Booked(p, tokens, lu, SegReturns(lu))
    /\ IF SegReturns(lu)
       THEN \* line 232 (when the loop ran), 234, and the lock's release
            /\ tokens' = SegTokens(lu) - TokenUnit
            /\ last_update' = IF tokens > 0 THEN lu ELSE clock
            /\ lockHolder' = 0
            /\ acq' = [acq EXCEPT ![p] = IdleAcq]
            /\ acqLog' = IF p \in Callers /\ Len(acqLog) < MaxAcquires
                         THEN Append(acqLog, [caller |-> p, t |-> clock,
                                              slept |-> slept,
                                              calledAt |-> calledAt])
                         ELSE acqLog
       ELSE \* line 230-231: suspended in asyncio.sleep, the lock held
            /\ tokens' = SegTokens(lu)
            /\ last_update' = lu
            /\ lockHolder' = HeldWhileAsleep(p)
            /\ acq' = [acq EXCEPT ![p] = [pc |-> "sleeping", now |-> clock,
                                          slept |-> TRUE,
                                          calledAt |-> calledAt]]
            /\ acqLog' = acqLog

\* acquire() called by p: line 222, then the first segment when the lock is
\* free, else p queues on the lock
AcquireCall(p) ==
    /\ acq[p].pc = "idle"
    /\ Len(acqLog) < MaxAcquires
    /\ IF lockHolder = 0 /\ waitQ = <<>>
       THEN /\ Segment(p, last_update, clock, FALSE)
            /\ waitQ' = waitQ
       ELSE /\ waitQ' = Append(waitQ, p)
            /\ acq' = [acq EXCEPT ![p] = [pc |-> "waiting", now |-> 0,
                                          slept |-> FALSE,
                                          calledAt |-> clock]]
            /\ UNCHANGED <<tokens, last_update, lockHolder, acqLog, ledger>>
    /\ UNCHANGED <<clock, aiVars, uiVars, fsVars>>

\* the ticks in which a drained bucket gains a whole token
TicksPerToken == (TokenUnit + Capacity - 1) \div Capacity

\* acquire() called by p while the clock of the model still has the time
\* ahead that the calls of all callers can take to be served
TimelyAcquireCall(p) ==
    /\ clock + NumCallers * TicksPerToken <= MaxClock
    /\ AcquireCall(p)

\* the lock is handed to its first waiter
AcquireGranted(p) ==
    /\ acq[p].pc = "waiting"
    /\ lockHolder = 0
    /\ waitQ # <<>>
    /\ Head(waitQ) = p
    /\ Segment(p, last_update, acq[p].calledAt, FALSE)
    /\ waitQ' = Tail(waitQ)
    /\ UNCHANGED <<clock, aiVars, uiVars, fsVars>>

\* asyncio.sleep(0.1) is over: line 232, then the loop again
AcquireWake(p) ==
    /\ acq[p].pc = "sleeping"
    /\ clock >= acq[p].now + SleepTicks
    /\ Segment(p, acq[p].now, acq[p].calledAt, TRUE)
    /\ waitQ' = waitQ
    /\ UNCHANGED <<clock, aiVars, uiVars, fsVars>>

\* wall-clock time passes
Tick ==
    /\ clock < MaxClock
    /\ clock' = clock + 1
    /\ UNCHANGED <<limVars, aiVars, uiVars, fsVars>>

----------------------------------------------------------------------------
(* AIService *)

Workspaces == {"/w"}
Files      == {"/w/a", "/w/.b"}
Selections == {<<>>, <<"/w/.b", "/w/a">>}
Commands   == {"list files"}
\* what the remote end can stream: the chunk.content of each event in
\* order, "" for an event without text
Streams    == {<<>>, <<"Hel", "", "lo">>, <<"lo", "Hel">>}
\* what the client can raise: anthropic's APITimeoutError, RateLimitError,
\* any other APIError, and anything else
ClientErrors == {"APITimeoutError", "RateLimitError", "APIError", "ValueError"}

\* self.context = None.  The timestamp fields of AIContext and of
\* AIResponse.metadata are written and never read; they are left out
NoContext == [set |-> FALSE, workspace_path |-> None, selected_files |-> <<>>,
              last_command |-> None, last_response |-> None]

\* no AIResponse
NoResponse == [present |-> FALSE, content |-> "", context |-> NoContext]

IdleCmd == [state |-> "Idle", command |-> "", prompt |-> "",
            stream |-> <<>>, delivered |-> <<>>, full_response |-> <<>>,
            closed |-> FALSE, cause |-> None, raised |-> None,
            returned |-> NoResponse]

NoArgs == [called |-> FALSE, workspace_path |-> None, selected_files |-> <<>>]

\* AIService.__init__
AIInit ==
    /\ isInit = FALSE
    /\ context = NoContext
    /\ cmd = IdleCmd
    /\ trace = <<>>
    /\ ncalls = 0
    /\ ctxArgs = NoArgs

Event(kind, text) == [kind |-> kind, text |-> text]

\* a call is in flight between its first and its last segment
InFlight == cmd.state \in {"RateLimiting", "Requesting", "Streaming"}

\* AIService.initialize, the probe answered
InitializeOk ==
    /\ ~isInit
    /\ isInit' = TRUE
    /\ UNCHANGED <<context, cmd, trace, ncalls, ctxArgs>>
    /\ UNCHANGED <<clock, limVars, uiVars, fsVars>>

\* AIService.initialize, the probe raised: logged and re-raised
InitializeFail ==
    /\ ~isInit
    /\ UNCHANGED aiVars
    /\ UNCHANGED <<clock, limVars, uiVars, fsVars>>

\* AIService.initialize when already initialized
InitializeAgain ==
    /\ isInit
    /\ UNCHANGED aiVars
    /\ UNCHANGED <<clock, limVars, uiVars, fsVars>>

\* AIService.cleanup
Cleanup ==
    /\ context' = NoContext
    /\ isInit' = FALSE
    /\ ctxArgs' = NoArgs
    /\ UNCHANGED <<cmd, trace, ncalls>>
    /\ uiRequested' = FALSE
    /\ UNCHANGED <<clock, limVars, current_path, selected_files, fsVars>>

\* line 94-95 with nothing taken from the previous context
UpdatedContext_Fresh(ctx, w, s) ==
    [set |-> TRUE,
     workspace_path |-> w,
     selected_files |-> s,
     last_command |-> None,
     last_response |-> None]

\* the body of AIService.update_context
UpdatedContext(ctx, w, s) ==
    [set |-> TRUE,
     workspace_path |-> w,
     selected_files |-> s,
     last_command |-> IF ctx.set THEN ctx.last_command ELSE None,
     last_response |-> IF ctx.set THEN ctx.last_response ELSE None]

\* await ai_service.update_context(w, s)
UpdateContext(w, s) ==
    /\ context' = UpdatedContext(context, w, s)
    /\ ctxArgs' = [called |-> TRUE, workspace_path |-> w,
                   selected_files |-> s]
    /\ UNCHANGED <<isInit, cmd, trace, ncalls>>
    /\ uiRequested' = FALSE
    /\ UNCHANGED <<clock, limVars, current_path, selected_files, fsVars>>

\* AIService._build_system_prompt: the parts joined by "\n\n"
RECURSIVE JoinWith(_, _)
JoinWith(parts, sep) ==
    IF parts = <<>> THEN ""
    ELSE IF Len(parts) = 1 THEN Head(parts)
    ELSE Head(parts) \o sep \o JoinWith(Tail(parts), sep)

BasePrompt == "You are an AI assistant helping with file management."

\* line 201 left out: the selected-files part appended always
PromptParts_AlwaysSelected(ctx) ==
    IF ~ctx.set THEN <<BasePrompt>>
    ELSE <<BasePrompt, "Current workspace: " \o ctx.workspace_path,
           "Selected files:\n" \o JoinWith(ctx.selected_files, "\n")>>
         \o (IF ctx.last_command \notin {None, ""}
             THEN <<"Last command: " \o ctx.last_command>>
             ELSE <<>>)

\* line 193-206: the parts of the prompt
PromptParts(ctx) ==
    IF ~ctx.set THEN <<BasePrompt>>
    ELSE <<BasePrompt, "Current workspace: " \o ctx.workspace_path>>
         \o (IF ctx.selected_files # <<>>
             THEN <<"Selected files:\n" \o JoinWith(ctx.selected_files, "\n")>>
             ELSE <<>>)
         \o (IF ctx.last_command \notin {None, ""}
             THEN <<"Last command: " \o ctx.last_command>>
             ELSE <<>>)

BuildSystemPrompt(ctx) == JoinWith(PromptParts(ctx), "\n\n")

\* the guard left out
NotInitialized_Never == FALSE

\* line 112: the guard of process_command
NotInitialized == ~isInit

\* the APIError clause placed first: it catches its subclasses too
HandleError_APIErrorFirst(e) ==
    IF e \in {"APITimeoutError", "RateLimitError", "APIError"}
    THEN [msg |-> "AI API error: " \o e, raised |-> "ConnectionError"]
    ELSE [msg |-> "Unexpected error in AI processing: " \o e, raised |-> e]

\* line 171-189: the notification's message and what reaches the caller
HandleError(e) ==
    CASE e = "APITimeoutError" ->
            [msg |-> "AI request timed out", raised |-> "ConnectionError"]
      [] e = "RateLimitError" ->
            [msg |-> "AI rate limit exceeded", raised |-> "RateLimitError"]
      [] e = "APIError" ->
            [msg |-> "AI API error: " \o e, raised |-> "ConnectionError"]
      [] OTHER ->
            [msg |-> "Unexpected error in AI processing: " \o e,
             raised |-> e]

\* an except clause that raises without notifying
ErrorEvents_Silent(e) == <<>>

\* the notifications of a failure path, in order
ErrorEvents(e) == <<Event("error_occurred", HandleError(e).msg)>>

\* an except clause of process_command: notify, then raise
Fail(e, closed) ==
    /\ trace' = trace \o ErrorEvents(e)
                      \o <<Event("raise", HandleError(e).raised)>>
    /\ cmd' = [cmd EXCEPT !.state = "Failed", !.cause = e,
                          !.closed = closed,
                          !.raised = HandleError(e).raised]

\* line 120-137: prompt, messages, response_started, and the request sent
OpenRequest(c) ==
    /\ trace' = <<Event("response_started", "")>>
    /\ cmd' = [IdleCmd EXCEPT !.state = "Requesting", !.command = c,
                              !.prompt = BuildSystemPrompt(context)]

\* process_command(c) up to its first suspension
ProcessCommand(c) ==
    /\ ~InFlight
    /\ ncalls < MaxCmds
    /\ acq[CmdCaller].pc = "idle"
    /\ ncalls' = ncalls + 1
    /\ IF NotInitialized
       THEN \* line 113
            /\ cmd' = [IdleCmd EXCEPT !.state = "Rejected", !.command = c,
                                      !.raised = "RuntimeError"]
            /\ trace' = <<Event("raise", "RuntimeError")>>
            /\ UNCHANGED limVars
       ELSE \* line 116, the lock is free: one caller at a time
            /\ Segment(CmdCaller, last_update, clock, FALSE)
            /\ waitQ' = waitQ
            /\ IF SegReturns(last_update)
               THEN OpenRequest(c)
               ELSE /\ cmd' = [IdleCmd EXCEPT !.state = "RateLimiting",
                                              !.command = c]
                    /\ trace' = <<>>
    /\ UNCHANGED <<isInit, context, ctxArgs>>
    /\ UNCHANGED <<clock, uiVars, fsVars>>

\* process_command resumed from the limiter's sleep
CommandWake ==
    /\ cmd.state = "RateLimiting"
    /\ acq[CmdCaller].pc = "sleeping"
    /\ clock >= acq[CmdCaller].now + SleepTicks
    /\ Segment(CmdCaller, acq[CmdCaller].now, acq[CmdCaller].calledAt, TRUE)
    /\ waitQ' = waitQ
    /\ IF SegReturns(acq[CmdCaller].now)
       THEN OpenRequest(cmd.command)
       ELSE UNCHANGED <<cmd, trace>>
    /\ UNCHANGED <<isInit, context, ncalls, ctxArgs>>
    /\ UNCHANGED <<clock, uiVars, fsVars>>

\* line 132: messages.create returned the stream
RequestOpened(stream) ==
    /\ cmd.state = "Requesting"
    /\ cmd' = [cmd EXCEPT !.state = "Streaming", !.stream = stream]
    /\ UNCHANGED <<isInit, context, trace, ncalls, ctxArgs>>
    /\ UNCHANGED <<clock, limVars, uiVars, fsVars>>

\* line 132 or 141: the client raised e
ClientRaises(e) ==
    /\ cmd.state \in {"Requesting", "Streaming"}
    /\ Fail(e, FALSE)
    /\ UNCHANGED <<isInit, context, ncalls, ctxArgs>>
    /\ UNCHANGED <<clock, limVars, uiVars, fsVars>>

\* line 142-144: the notifications one stream event causes
ChunkEvents(c) == IF c # "" THEN <<Event("response_chunk", c)>> ELSE <<>>

\* the chunk put in front of the buffer
Buffered_Prepend(buf, c) == IF c # "" THEN <<c>> \o buf ELSE buf

\* line 142-143: full_response after one stream event
Buffered(buf, c) == IF c # "" THEN Append(buf, c) ELSE buf

\* line 141-144: the next event of the stream arrives
StreamChunk ==
    /\ cmd.state = "Streaming"
    /\ Len(cmd.delivered) < Len(cmd.stream)
    /\ LET c == cmd.stream[Len(cmd.delivered) + 1]
       IN  /\ cmd' = [cmd EXCEPT !.delivered = Append(@, c),
                                 !.full_response = Buffered(@, c)]
           /\ trace' = trace \o ChunkEvents(c)
    /\ UNCHANGED <<isInit, context, ncalls, ctxArgs>>
    /\ UNCHANGED <<clock, limVars, uiVars, fsVars>>

\* line 149-153: the context after a completed exchange
ContextAfter(ctx, c, text) ==
    IF ctx.set
    THEN [ctx EXCEPT !.last_command = c, !.last_response = text]
    ELSE ctx

\* line 158: self.context.copy() if self.context else None.  AIContext is a
\* plain dataclass and defines no copy(): the call raises AttributeError
CopyRaises(ctx) == ctx.set

\* line 141, 147-169: the stream closed
StreamClosed ==
    /\ cmd.state = "Streaming"
    /\ cmd.delivered = cmd.stream
    /\ LET text == Join(cmd.full_response)
           ctx  == ContextAfter(context, cmd.command, text)
       IN  /\ context' = ctx
           /\ IF CopyRaises(ctx)
              THEN Fail("AttributeError", TRUE)
              ELSE LET resp == [present |-> TRUE, content |-> text,
                                context |-> ctx]
                   IN  /\ trace' = trace
                                   \o <<Event("response_complete", text),
                                        Event("return", text)>>
                       /\ cmd' = [cmd EXCEPT !.state = "Completed",
                                             !.closed = TRUE,
                                             !.returned = resp]
    /\ UNCHANGED <<isInit, ncalls, ctxArgs>>
    /\ UNCHANGED <<clock, limVars, uiVars, fsVars>>

----------------------------------------------------------------------------
(* MainWindow: the slots that ask for a context update *)

UIInit ==
    /\ current_path = None
    /\ selected_files = <<>>
    /\ uiRequested = FALSE

\* line 152 and 173: self.ai_service.update_context(...) is called without
\* await or a task: the coroutine object is dropped and its body never runs
CalledWithoutAwait(ctx, w, s) == ctx

\* MainWindow.on_current_path_changed
OnCurrentPathChanged(path) ==
    /\ current_path' = path
    /\ context' = CalledWithoutAwait(context, path, selected_files)
    /\ uiRequested' = TRUE
    /\ UNCHANGED <<selected_files, isInit, cmd, trace, ncalls, ctxArgs>>
    /\ UNCHANGED <<clock, limVars, fsVars>>

\* MainWindow.on_selection_changed
OnSelectionChanged(paths) ==
    /\ selected_files' = paths
    /\ context' = CalledWithoutAwait(context, current_path, paths)
    /\ uiRequested' = TRUE
    /\ UNCHANGED <<current_path, isInit, cmd, trace, ncalls, ctxArgs>>
    /\ UNCHANGED <<clock, limVars, fsVars>>

----------------------------------------------------------------------------
(* FileSystemService: metadata cache and file operations *)

\* largest file size written
MaxSize == 1

\* the entries of directory /w; a leading dot in the name hides an entry
HiddenFiles == {"/w/.b"}
Sizes == 0..MaxSize
\* what the operating system lets this process do with an existing entry:
\* "rw" everything, "ro" stat and read but neither write nor unlink,
\* "none" nothing, not even stat
Perms == {"rw", "ro", "none"}
\* the orders in which os.listdir can name the entries of /w
DirOrders == {<<"/w/.b", "/w/a">>, <<"/w/a", "/w/.b">>}

Absent == [exists |-> FALSE, size |-> 0]
NoMeta == [cached |-> FALSE, size |-> 0, is_hidden |-> FALSE]
NoCall == [op |-> "none", path |-> None, existed |-> FALSE,
           wasCached |-> FALSE, outcome |-> "none", meta |-> NoMeta,
           size |-> 0, emitted |-> FALSE]
NoListing == [active |-> FALSE, done |-> FALSE, include_hidden |-> FALSE,
              todo |-> <<>>, yielded |-> {}, statable |-> {}]

\* FileSystemService.__init__, on a disk that holds /w/a
FSInit ==
    /\ disk = [p \in Files |-> IF p = "/w/a"
                               THEN [exists |-> TRUE, size |-> 1]
                               ELSE Absent]
    /\ perm = [p \in Files |-> "rw"]
    /\ metadata_cache = [p \in Files |-> NoMeta]
    /\ fsResult = NoCall
    /\ lister = NoListing

\* the entry is on disk
Exists(p) == disk[p].exists

\* os.stat of the entry is refused: path.exists() lets PermissionError through
StatDenied(p) == Exists(p) /\ perm[p] = "none"

\* open for writing and unlink are refused
WriteDenied(p) == Exists(p) /\ perm[p] \in {"ro", "none"}

\* line 159-169: the metadata a stat of p gives
Stat(p) == [cached |-> TRUE, size |-> disk[p].size,
            is_hidden |-> p \in HiddenFiles]

\* line 153-157: what get_metadata answers from, for a path in state
\* (cache, disk): "cache", "denied", "error" or "stat"
Lookup(p) ==
    IF metadata_cache[p].cached THEN "cache"
    ELSE IF StatDenied(p) THEN "denied"
    ELSE IF ~Exists(p) THEN "error"
    ELSE "stat"

\* what get_metadata(p) ends with
LookupOutcome(p) ==
    CASE Lookup(p) = "denied" -> "PermissionError"
      [] Lookup(p) = "error"  -> "FileNotFoundError"
      [] OTHER                -> "ok"

\* the cache after get_metadata(p), and what it returns
CacheAfterGet(cache, p) ==
    IF Lookup(p) = "stat" THEN [cache EXCEPT ![p] = Stat(p)] ELSE cache
MetaOf(p) ==
    CASE Lookup(p) = "cache" -> metadata_cache[p]
      [] Lookup(p) = "stat"  -> Stat(p)
      [] OTHER               -> NoMeta

Called(op, p) == [NoCall EXCEPT !.op = op, !.path = p,
                                !.existed = Exists(p),
                                !.wasCached = metadata_cache[p].cached]

\* FileSystemService.get_metadata
GetMetadata(p) ==
    /\ metadata_cache' = CacheAfterGet(metadata_cache, p)
    /\ fsResult' = [Called("get_metadata", p) EXCEPT
                        !.outcome = LookupOutcome(p),
                        !.meta = MetaOf(p)]
    /\ UNCHANGED <<disk, perm, lister, monVars, clock, limVars, aiVars, uiVars>>

\* FileSystemService.read_file
ReadFile(p) ==
    /\ fsResult' = [Called("read_file", p) EXCEPT
                        !.outcome = IF StatDenied(p) THEN "PermissionError"
                                    ELSE IF ~Exists(p)
                                    THEN "FileNotFoundError" ELSE "ok"]
    /\ UNCHANGED <<disk, perm, metadata_cache, lister, monVars,
                   clock, limVars, aiVars, uiVars>>

\* line 235 left out
CacheAfterWrite_Keep(cache, p) == cache

\* line 235: self.metadata_cache.pop(path, None)
CacheAfterWrite(cache, p) == [cache EXCEPT ![p] = NoMeta]

\* FileSystemService.write_file
WriteFile(p, n) ==
    /\ IF WriteDenied(p)
       THEN \* line 230: open raises, nothing after it runs
            /\ fsResult' = [Called("write_file", p) EXCEPT
                                !.outcome = "PermissionError", !.size = n]
            /\ UNCHANGED <<disk, perm, metadata_cache>>
       ELSE /\ disk' = [disk EXCEPT ![p] = [exists |-> TRUE, size |-> n]]
            /\ perm' = [perm EXCEPT ![p] = "rw"]
            /\ metadata_cache' = CacheAfterWrite(metadata_cache, p)
            /\ fsResult' = [Called("write_file", p) EXCEPT
                                !.outcome = "ok", !.size = n]
    /\ UNCHANGED <<lister, monVars, clock, limVars, aiVars, uiVars>>

\* line 247-255: the cache after delete_file(p); `removed` says whether
\* path.unlink() was reached and succeeded
CacheAfterDelete(cache, p, removed) ==
    IF removed THEN [cache EXCEPT ![p] = NoMeta] ELSE cache

\* FileSystemService.delete_file
DeleteFile(p) ==
    /\ IF StatDenied(p)
       THEN \* line 247: path.exists() raises
            /\ fsResult' = [Called("delete_file", p) EXCEPT
                                !.outcome = "PermissionError"]
            /\ metadata_cache' = CacheAfterDelete(metadata_cache, p, FALSE)
            /\ UNCHANGED <<disk, perm>>
       ELSE IF ~Exists(p)
       THEN \* line 248
            /\ fsResult' = [Called("delete_file", p) EXCEPT
                                !.outcome = "FileNotFoundError"]
            /\ metadata_cache' = CacheAfterDelete(metadata_cache, p, FALSE)
            /\ UNCHANGED <<disk, perm>>
       ELSE IF WriteDenied(p)
       THEN \* line 251, 253-255: unlink raises, notified and re-raised
            /\ fsResult' = [Called("delete_file", p) EXCEPT
                                !.outcome = "PermissionError",
                                !.emitted = TRUE]
            /\ metadata_cache' = CacheAfterDelete(metadata_cache, p, FALSE)
            /\ UNCHANGED <<disk, perm>>
       ELSE /\ disk' = [disk EXCEPT ![p] = Absent]
            /\ perm' = [perm EXCEPT ![p] = "rw"]
            /\ metadata_cache' = CacheAfterDelete(metadata_cache, p, TRUE)
            /\ fsResult' = [Called("delete_file", p) EXCEPT !.outcome = "ok"]
    /\ UNCHANGED <<lister, monVars, clock, limVars, aiVars, uiVars>>

\* line 283: the errors of get_metadata(item) that skip the item
Skipped(p) == LookupOutcome(p) \in {"PermissionError", "FileNotFoundError"}

\* line 281: the item is yielded
Shown(p, include_hidden) == include_hidden \/ ~MetaOf(p).is_hidden

\* line 278-285: the loop of list_directory run from one suspension (the
\* call, or a yield) to the next yield or to its end.  `st` collects the
\* items that could be stat'ed when their turn came
RECURSIVE Advance(_, _, _, _)
Advance(todo, cache, include_hidden, st) ==
    IF todo = <<>>
    THEN [todo |-> <<>>, cache |-> cache, item |-> None, statable |-> st]
    ELSE LET p   == Head(todo)
             st2 == IF Exists(p) /\ ~StatDenied(p) THEN st \cup {p} ELSE st
         IN  IF Skipped(p)
             THEN Advance(Tail(todo), cache, include_hidden, st2)
             ELSE IF Shown(p, include_hidden)
             THEN [todo |-> Tail(todo), cache |-> CacheAfterGet(cache, p),
                   item |-> p, statable |-> st2]
             ELSE Advance(Tail(todo), CacheAfterGet(cache, p),
                          include_hidden, st2)

\* the listing after one run of the loop
Listed(l, run) ==
    [l EXCEPT !.active = run.item # None,
              !.done = run.item = None,
              !.todo = run.todo,
              !.yielded = IF run.item # None THEN @ \cup {run.item} ELSE @,
              !.statable = run.statable]

\* no error of get_metadata reaches line 286: the listing does not raise
ListResult(run) ==
    [NoCall EXCEPT !.op = "list_directory", !.path = "/w", !.existed = TRUE,
                   !.outcome = "ok"]

\* FileSystemService.list_directory("/w", include_hidden): the call and the
\* consumer's first request; /w is a directory, its entries are listed once
ListStart(include_hidden, order) ==
    /\ ~lister.active
    /\ LET run == Advance(SelectSeq(order, Exists), metadata_cache,
                          include_hidden, {})
       IN  /\ lister' = Listed([NoListing EXCEPT
                                   !.include_hidden = include_hidden], run)
           /\ metadata_cache' = run.cache
           /\ fsResult' = ListResult(run)
    /\ UNCHANGED <<disk, perm, monVars, clock, limVars, aiVars, uiVars>>

\* the consumer asks for the next item
ListNext ==
    /\ lister.active
    /\ LET run == Advance(lister.todo, metadata_cache,
                          lister.include_hidden, lister.statable)
       IN  /\ lister' = Listed(lister, run)
           /\ metadata_cache' = run.cache
           /\ fsResult' = ListResult(run)
    /\ UNCHANGED <<disk, perm, monVars, clock, limVars, aiVars, uiVars>>

\* FileSystemService.clear_metadata_cache
ClearMetadataCache ==
    /\ metadata_cache' = [p \in Files |-> NoMeta]
    /\ fsResult' = [NoCall EXCEPT !.op = "clear_metadata_cache",
                                  !.outcome = "ok"]
    /\ UNCHANGED <<disk, perm, lister, monVars, clock, limVars, aiVars, uiVars>>

\* another program writes p
ExternalWrite(p, n) ==
    /\ disk' = [disk EXCEPT ![p] = [exists |-> TRUE, size |-> n]]
    /\ UNCHANGED <<perm, metadata_cache, fsResult, lister, monVars,
                   clock, limVars, aiVars, uiVars>>

\* another program removes p
ExternalDelete(p) ==
    /\ Exists(p)
    /\ disk' = [disk EXCEPT ![p] = Absent]
    /\ perm' = [perm EXCEPT ![p] = "rw"]
    /\ UNCHANGED <<metadata_cache, fsResult, lister, monVars,
                   clock, limVars, aiVars, uiVars>>

\* the access this process has to p changes
ExternalChmod(p, m) ==
    /\ Exists(p)
    /\ perm[p] # m
    /\ perm' = [perm EXCEPT ![p] = m]
    /\ UNCHANGED <<disk, metadata_cache, fsResult, lister, monVars,
                   clock, limVars, aiVars, uiVars>>

----------------------------------------------------------------------------
(* FileSystemService: monitoring *)

\* the directories that can be monitored; the files of /w are the paths
\* that are no directories
Dirs == {"/w", "/v"}
MonPaths == Dirs \cup Files

NoMonCall == [op |-> "none", path |-> None, wasRegistered |-> FALSE,
              scheduled |-> FALSE, emitted |-> FALSE, outcome |-> "none"]
NoEvent == [root |-> None, registered |-> FALSE, is_directory |-> FALSE,
            notified |-> FALSE]

\* line 75-79: Observer() is a thread not yet started, without watches
MonInit ==
    /\ observer = [thread |-> "new", watches |-> {}]
    /\ monitored_paths = {}
    /\ fsIsInit = FALSE
    /\ monResult = NoMonCall
    /\ lastEvent = NoEvent

\* FileSystemService.initialize: Observer.start() starts the emitters of the
\* watches scheduled so far and then its own thread, and a thread that has
\* run cannot be started again (RuntimeError)
FSInitialize ==
    /\ IF fsIsInit
       THEN /\ monResult' = [NoMonCall EXCEPT !.op = "initialize",
                                              !.outcome = "ok"]
            /\ UNCHANGED <<observer, fsIsInit>>
       ELSE IF observer.thread = "new"
       THEN /\ observer' = [observer EXCEPT !.thread = "alive"]
            /\ fsIsInit' = TRUE
            /\ monResult' = [NoMonCall EXCEPT !.op = "initialize",
                                              !.outcome = "ok"]
       ELSE /\ monResult' = [NoMonCall EXCEPT !.op = "initialize",
                                              !.outcome = "RuntimeError"]
            /\ UNCHANGED <<observer, fsIsInit>>
    /\ UNCHANGED <<monitored_paths, lastEvent, disk, perm, metadata_cache,
                   fsResult, lister, clock, limVars, aiVars, uiVars>>

\* line 96-98: a running observer is stopped and joined, and on its way out
\* its thread unschedules every watch; an observer that is not running is
\* left as it is
ObserverAfterCleanup(o) ==
    IF o.thread = "alive" THEN [thread |-> "stopped", watches |-> {}] ELSE o

\* FileSystemService.cleanup
FSCleanup ==
    /\ observer' = ObserverAfterCleanup(observer)
    /\ monitored_paths' = {}
    /\ metadata_cache' = [p \in Files |-> NoMeta]
    /\ fsIsInit' = FALSE
    /\ monResult' = [NoMonCall EXCEPT !.op = "cleanup", !.outcome = "ok"]
    /\ UNCHANGED <<lastEvent, disk, perm, fsResult, lister,
                   clock, limVars, aiVars, uiVars>>

\* line 113-117 without the directory test
StartCheck_NoDirTest(p) ==
    IF p \notin Dirs /\ ~Exists(p) THEN "FileNotFoundError" ELSE "pass"

\* line 113-117: the tests start_monitoring makes before it does anything
StartCheck(p) ==
    IF p \in Dirs THEN "pass"
    ELSE IF ~Exists(p) THEN "FileNotFoundError"
    ELSE "NotADirectoryError"

\* line 120 answering that nothing is registered
AlreadyMonitored_Never(p) == FALSE

\* line 120: path not in self.monitored_paths
AlreadyMonitored(p) == p \in monitored_paths

MonCalled(op, p) == [NoMonCall EXCEPT !.op = op, !.path = p,
                                      !.wasRegistered = p \in monitored_paths]

\* FileSystemService.start_monitoring; `refused` says whether the operating
\* system refuses the watch that a running observer installs at once
StartMonitoring(p, refused) ==
    /\ refused => observer.thread = "alive"
    /\ IF StartCheck(p) # "pass"
       THEN /\ monResult' = [MonCalled("start_monitoring", p) EXCEPT
                                 !.outcome = StartCheck(p)]
            /\ UNCHANGED <<observer, monitored_paths>>
       ELSE IF AlreadyMonitored(p)
       THEN /\ monResult' = [MonCalled("start_monitoring", p) EXCEPT
                                 !.outcome = "ok"]
            /\ UNCHANGED <<observer, monitored_paths>>
       ELSE IF refused
       THEN \* line 128-130
            /\ monResult' = [MonCalled("start_monitoring", p) EXCEPT
                                 !.scheduled = TRUE, !.emitted = TRUE,
                                 !.outcome = "OSError"]
            /\ UNCHANGED <<observer, monitored_paths>>
       ELSE /\ observer' = [observer EXCEPT !.watches = @ \cup {p}]
            /\ monitored_paths' = monitored_paths \cup {p}
            /\ monResult' = [MonCalled("start_monitoring", p) EXCEPT
                                 !.scheduled = TRUE, !.outcome = "ok"]
    /\ UNCHANGED <<fsIsInit, lastEvent, fsVarsNoMon,
                   clock, limVars, aiVars, uiVars>>

\* FileSystemService.stop_monitoring: an Observer has no attribute
\* `watches` (it keeps them in _watches), so line 135 raises AttributeError
\* whenever it is reached
StopMonitoring(p) ==
    /\ monResult' = [MonCalled("stop_monitoring", p) EXCEPT
                         !.outcome = IF p \in monitored_paths
                                     THEN "AttributeError" ELSE "ok"]
    /\ UNCHANGED <<observer, monitored_paths, fsIsInit, lastEvent,
                   fsVarsNoMon, clock, limVars, aiVars, uiVars>>

\* line 39, 43, 47 without the test
Notified_Always(is_directory) == TRUE

\* line 39, 43, 47: if not event.is_directory, the signal is emitted
Notified(is_directory) == ~is_directory

\* FileSystemHandler.on_created, on_modified, on_deleted: a running observer
\* tells the handler of a change to a file or a directory below a root it
\* watches
FileEvent(p, is_directory) ==
    /\ observer.thread = "alive"
    /\ p \in observer.watches
    /\ lastEvent' = [root |-> p, registered |-> p \in monitored_paths,
                     is_directory |-> is_directory,
                     notified |-> Notified(is_directory)]
    /\ UNCHANGED <<observer, monitored_paths, fsIsInit, monResult,
                   fsVarsNoMon, clock, limVars, aiVars, uiVars>>

----------------------------------------------------------------------------
(* Specifications *)

Init ==
    /\ clock = 0
    /\ LimiterInit
    /\ AIInit
    /\ UIInit
    /\ FSInit
    /\ MonInit

\* the limiter under concurrent direct callers
LimNext ==
    \/ \E p \in Callers : AcquireCall(p)
    \/ \E p \in Callers : AcquireGranted(p)
    \/ \E p \in Callers : AcquireWake(p)
    \/ Tick

LimSpec == Init /\ [][LimNext]_vars

\* the limiter with time that keeps advancing and a fair event loop: the
\* loop runs every callback that is ready (a waiter handed the free lock, a
\* sleeper whose timer is due)
LimLiveNext ==
    \/ \E p \in Callers : TimelyAcquireCall(p)
    \/ \E p \in Callers : AcquireGranted(p)
    \/ \E p \in Callers : AcquireWake(p)
    \/ Tick

LimLiveSpec ==
    /\ Init
    /\ [][LimLiveNext]_vars
    /\ WF_vars(Tick)
    /\ \A p \in Callers : WF_vars(AcquireGranted(p))
    /\ \A p \in Callers : WF_vars(AcquireWake(p))

\* the AI service driven by the window and its callers
AINext ==
    \/ InitializeOk
    \/ InitializeFail
    \/ InitializeAgain
    \/ Cleanup
    \/ \E w \in Workspaces \cup {None}, s \in Selections : UpdateContext(w, s)
    \/ \E c \in Commands : ProcessCommand(c)
    \/ CommandWake
    \/ \E st \in Streams : RequestOpened(st)
    \/ \E e \in ClientErrors : ClientRaises(e)
    \/ StreamChunk
    \/ StreamClosed
    \/ Tick

AISpec == Init /\ [][AINext]_vars

\* the window's slots, the context and the commands that read it
UINext ==
    \/ InitializeOk
    \/ \E w \in Workspaces : OnCurrentPathChanged(w)
    \/ \E s \in Selections : OnSelectionChanged(s)
    \/ \E w \in Workspaces \cup {None}, s \in Selections : UpdateContext(w, s)
    \/ \E c \in Commands : ProcessCommand(c)
    \/ \E st \in Streams : RequestOpened(st)
    \/ \E e \in ClientErrors : ClientRaises(e)
    \/ StreamChunk
    \/ StreamClosed

UISpec == Init /\ [][UINext]_vars

\* the file service and the programs that share its disk
FSNext ==
    \/ \E p \in Files : GetMetadata(p)
    \/ \E p \in Files : ReadFile(p)
    \/ \E p \in Files, n \in Sizes : WriteFile(p, n)
    \/ \E p \in Files : DeleteFile(p)
    \/ ClearMetadataCache
    \/ \E p \in Files, n \in Sizes : ExternalWrite(p, n)
    \/ \E p \in Files : ExternalDelete(p)
    \/ \E p \in Files, m \in Perms : ExternalChmod(p, m)

FSSpec == Init /\ [][FSNext]_vars

\* list_directory consumed item by item while other programs change /w
ListingNext ==
    \/ \E h \in BOOLEAN, o \in DirOrders : ListStart(h, o)
    \/ ListNext
    \/ \E p \in Files, n \in Sizes : ExternalWrite(p, n)
    \/ \E p \in Files : ExternalDelete(p)
    \/ \E p \in Files, m \in Perms : ExternalChmod(p, m)

ListSpec == Init /\ [][ListingNext]_vars

\* the lifecycle of the file service and its monitoring, while files of /w
\* come and go
MonNext ==
    \/ FSInitialize
    \/ FSCleanup
    \/ \E p \in MonPaths, refused \in BOOLEAN : StartMonitoring(p, refused)
    \/ \E p \in MonPaths : StopMonitoring(p)
    \/ \E p \in Dirs, d \in BOOLEAN : FileEvent(p, d)
    \/ \E p \in Files, n \in Sizes : ExternalWrite(p, n)
    \/ \E p \in Files : ExternalDelete(p)

MonSpec == Init /\ [][MonNext]_vars

\* the cache of the file service while /w is watched: calls that fill and
\* empty the cache, other programs changing the files, and the changes
\* reported to the handler
WatchNext ==
    \/ FSInitialize
    \/ FSCleanup
    \/ StartMonitoring("/w", FALSE)
    \/ \E d \in BOOLEAN : FileEvent("/w", d)
    \/ \E p \in Files : GetMetadata(p)
    \/ \E p \in Files, n \in Sizes : WriteFile(p, n)
    \/ \E p \in Files : DeleteFile(p)
    \/ ClearMetadataCache
    \/ \E p \in Files, n \in Sizes : ExternalWrite(p, n)
    \/ \E p \in Files : ExternalDelete(p)

WatchSpec == Init /\ [][WatchNext]_vars

----------------------------------------------------------------------------
(* Claims *)

Count(tr, kind) == Cardinality({i \in 1..Len(tr) : tr[i].kind = kind})
IsChunk(ev) == ev.kind = "response_chunk"
HasText(c) == c # ""
ChunkTexts(tr) ==
    LET evs == SelectSeq(tr, IsChunk) IN [i \in 1..Len(evs) |-> evs[i].text]

\* C1: get_metadata, read_file and delete_file of a path that is not on disk
\* when they are called end in FileNotFoundError, whatever was cached.
C1_AbsentPathFails ==
    (/\ fsResult.op \in {"get_metadata", "read_file", "delete_file"}
     /\ ~fsResult.existed)
        => fsResult.outcome = "FileNotFoundError"

\* C2 as stated: once the stream has closed, the response_chunk
\* notifications carry exactly the delivered chunks c1..cn in order, and a
\* returned response holds their concatenation.
C2_EveryChunkNotified ==
    cmd.closed =>
        /\ ChunkTexts(trace) = cmd.delivered
        /\ cmd.returned.present => cmd.returned.content = Join(cmd.delivered)

\* C2 amended: at every point of a call the response_chunk notifications
\* carry exactly the non-empty delivered chunks in arrival order, each after
\* response_started and before response_complete and the call's end; a
\* returned response holds the concatenation of all delivered chunks.
C2_NonEmptyChunksInOrder ==
    /\ ChunkTexts(trace) = SelectSeq(cmd.delivered, HasText)
    /\ \A i \in 1..Len(trace) :
          IsChunk(trace[i]) =>
              /\ i > 1
              /\ trace[1].kind = "response_started"
              /\ \A j \in 1..i :
                    trace[j].kind \notin {"response_complete", "return",
                                          "raise", "error_occurred"}
    /\ cmd.returned.present =>
          /\ cmd.returned.content = Join(cmd.delivered)
          /\ Count(trace, "response_complete") = 1

C2_Witness ==
    /\ cmd.state = "Completed"
    /\ cmd.delivered = <<"Hel", "", "lo">>
    /\ ChunkTexts(trace) = <<"Hel", "lo">>
    /\ cmd.returned.content = "Hello"

\* C3: a call whose stream closed without a client error is Completed: one
\* AIResponse returned, holding the context, and one response_complete.
C3_ClosedStreamCompletes ==
    cmd.closed =>
        /\ cmd.state = "Completed"
        /\ cmd.returned.present
        /\ Count(trace, "response_complete") = 1
        /\ trace[Len(trace)].kind = "return"

\* C4: the step in which a call fails leaves the context's last_command and
\* last_response as they were.
C4_FailureKeepsLastExchange ==
    [][(cmd.state # "Failed" /\ cmd'.state = "Failed")
          => /\ context'.last_command = context.last_command
             /\ context'.last_response = context.last_response]_vars

\* C5: a failed call returned no AIResponse and emitted no
\* response_complete, however many chunks it had notified; it emitted
\* exactly one error_occurred, right before the raise that ends it.
C5_FailureNotifiesOnceNoResponse ==
    cmd.state = "Failed" =>
        /\ ~cmd.returned.present
        /\ Count(trace, "response_complete") = 0
        /\ Count(trace, "return") = 0
        /\ Count(trace, "error_occurred") = 1
        /\ Count(trace, "raise") = 1
        /\ Len(trace) >= 2
        /\ trace[Len(trace)].kind = "raise"
        /\ trace[Len(trace) - 1].kind = "error_occurred"

C5_Witness ==
    /\ cmd.state = "Failed"
    /\ cmd.cause = "APITimeoutError"
    /\ cmd.full_response = <<"Hel">>
    /\ Count(trace, "response_chunk") = 1

\* C6: when a command assembles its prompt after a slot of the window asked
\* for a context update, the context holds the window's path and selection.
C6_SlotUpdateSeenByCommand ==
    [][(cmd.state # "Requesting" /\ cmd'.state = "Requesting" /\ uiRequested)
          => /\ context.set
             /\ context.workspace_path = current_path
             /\ context.selected_files = selected_files]_vars

\* C7: in any window of one minute at most Capacity acquire() calls return.
C7_AtMostCapacityPerMinute ==
    \A i \in 1..Len(acqLog) :
        Cardinality({j \in 1..Len(acqLog) :
                        /\ acqLog[j].t >= acqLog[i].t
                        /\ acqLog[j].t < acqLog[i].t + TicksPerMinute})
            <= Capacity

\* C8: of Capacity + 1 calls issued at one instant on a fresh limiter,
\* however long after its construction, the first Capacity return without
\* sleeping and the last one sleeps and returns at a later time.
C8_BurstThenSuspend ==
    (/\ Len(acqLog) >= Capacity + 1
     /\ \A i \in 1..(Capacity + 1) : acqLog[i].calledAt = acqLog[1].calledAt)
        => /\ \A i \in 1..Capacity : ~acqLog[i].slept
           /\ acqLog[Capacity + 1].slept
           /\ acqLog[Capacity + 1].t > acqLog[Capacity + 1].calledAt

\* C9: a process_command call made while the service is not initialized is
\* rejected with RuntimeError: no token is taken, nothing is notified, no
\* request is prepared and the context stays as it is.
C9_NotInitializedRejects ==
    [][(ncalls' = ncalls + 1 /\ ~isInit)
          => /\ cmd'.state = "Rejected"
             /\ cmd'.raised = "RuntimeError"
             /\ trace' = <<Event("raise", "RuntimeError")>>
             /\ cmd'.prompt = ""
             /\ tokens' = tokens
             /\ last_update' = last_update
             /\ acq' = acq
             /\ context' = context]_vars

\* rejected after an earlier call took a token: initialize() had succeeded
\* and cleanup() undid it
C9_Witness ==
    /\ cmd.state = "Rejected"
    /\ tokens < Capacity * TokenUnit
    /\ ~isInit

\* C10: a failed call ends in ConnectionError after a timeout, in the same
\* RateLimitError after a rate-limit rejection, in ConnectionError after
\* another API error and in the error itself otherwise; the error
\* notification comes right before.
C10_FailureMapping ==
    cmd.state = "Failed" =>
        /\ cmd.cause = "APITimeoutError" => cmd.raised = "ConnectionError"
        /\ cmd.cause = "RateLimitError" => cmd.raised = "RateLimitError"
        /\ cmd.cause = "APIError" => cmd.raised = "ConnectionError"
        /\ cmd.cause \notin {"APITimeoutError", "RateLimitError", "APIError"}
              => cmd.raised = cmd.cause
        /\ Len(trace) >= 2
        /\ trace[Len(trace)] = Event("raise", cmd.raised)
        /\ trace[Len(trace) - 1].kind = "error_occurred"

C10_Witness ==
    /\ cmd.state = "Failed"
    /\ cmd.cause = "RateLimitError"
    /\ cmd.raised = "RateLimitError"
    /\ trace[Len(trace) - 1] = Event("error_occurred", "AI rate limit exceeded")

\* C11: when write_file(P, content) has completed the cache holds no entry
\* for P, and a get_metadata(P) that is the next call stats the file again:
\* it finds no cached entry and returns the size now on disk, which is the
\* size written unless another program changed the file since.
C11_WriteInvalidates ==
    [][/\ (fsResult'.op = "write_file" /\ fsResult'.outcome = "ok")
            => ~metadata_cache'[fsResult'.path].cached
       /\ (/\ fsResult.op = "write_file"
           /\ fsResult.outcome = "ok"
           /\ fsResult'.op = "get_metadata"
           /\ fsResult'.path = fsResult.path)
            => /\ ~fsResult'.wasCached
               /\ (Exists(fsResult.path) /\ ~StatDenied(fsResult.path))
                    => /\ fsResult'.outcome = "ok"
                       /\ fsResult'.meta.size = disk[fsResult.path].size
               /\ (/\ disk[fsResult.path].size = fsResult.size
                   /\ Exists(fsResult.path)
                   /\ ~StatDenied(fsResult.path))
                    => fsResult'.meta.size = fsResult.size]_vars

\* a write that replaced a file whose metadata was cached
C11_Witness ==
    /\ fsResult.op = "write_file"
    /\ fsResult.outcome = "ok"
    /\ fsResult.existed
    /\ fsResult.wasCached
    /\ fsResult.size # 1
    /\ ~metadata_cache[fsResult.path].cached

\* C12: delete_file(P) ends in FileNotFoundError when P is not on disk and
\* removes the file otherwise; when the call has returned or has raised
\* FileNotFoundError the cache holds no entry for P.
C12_NoEntryAfterDelete ==
    fsResult.op = "delete_file" =>
        /\ ~fsResult.existed => fsResult.outcome = "FileNotFoundError"
        /\ fsResult.outcome = "ok" => ~Exists(fsResult.path)
        /\ fsResult.outcome \in {"ok", "FileNotFoundError"}
              => ~metadata_cache[fsResult.path].cached

\* a step that is one update_context call
UpdateContextStep ==
    /\ ctxArgs'.called
    /\ cmd' = cmd
    /\ context' # context \/ ctxArgs' # ctxArgs

\* C15, as stated: when a command has completed, a context set by
\* update_context calls made since holds that command as last_command.
C15_CompletedCommandKept ==
    (cmd.state = "Completed" /\ context.set)
        => context.last_command = cmd.command

\* C15: update_context(w, s) sets workspace_path to w and selected_files to
\* s and keeps last_command and last_response of the context it replaces
\* (None when there was no context), so a recorded last_command survives
\* any number of update_context calls.
C15_UpdateCarriesLastExchange ==
    [][UpdateContextStep
        => /\ context'.set
           /\ context'.workspace_path = ctxArgs'.workspace_path
           /\ context'.selected_files = ctxArgs'.selected_files
           /\ context'.last_command =
                 (IF context.set THEN context.last_command ELSE None)
           /\ context'.last_response =
                 (IF context.set THEN context.last_response ELSE None)]_vars

\* the call in flight was sent the last_command recorded by the call before
\* it together with workspace /w, and an update_context made since then has
\* dropped the workspace and kept that last_command
C15_Witness ==
    /\ cmd.state = "Requesting"
    /\ cmd.prompt = BasePrompt \o "\n\nCurrent workspace: /w"
                               \o "\n\nLast command: list files"
    /\ context.set
    /\ context.workspace_path = None
    /\ context.last_command = "list files"

\* the sections of the prompt as the specification words them
RECURSIVE FileLines(_)
FileLines(files) ==
    IF files = <<>> THEN "" ELSE "\n" \o Head(files) \o FileLines(Tail(files))
SelectedSection(files) ==
    IF files = <<>> THEN "" ELSE "\n\nSelected files:" \o FileLines(files)
LastCommandSection(c) ==
    IF c \in {None, ""} THEN "" ELSE "\n\nLast command: " \o c
WorkspaceSection(w) == "\n\nCurrent workspace: " \o w

\* a step in which process_command assembles the prompt and sends the request
PromptAssembled == cmd.state # "Requesting" /\ cmd'.state = "Requesting"

\* C16: the prompt of a command sent with workspace W holds the workspace
\* line for W; it holds the "Selected files" section exactly when the
\* selection is not empty, and the section lists the files in the order of
\* the selection.
C16_SelectedFilesSection ==
    [][PromptAssembled
        => IF ~context.set THEN cmd'.prompt = BasePrompt
           ELSE \E ws \in {"", WorkspaceSection(context.workspace_path)} :
                  /\ context.workspace_path # None => ws # ""
                  /\ cmd'.prompt =
                        BasePrompt \o ws
                          \o SelectedSection(context.selected_files)
                          \o LastCommandSection(context.last_command)]_vars

\* a command sent after update_context("/w", [])
C16_Witness ==
    /\ cmd.state = "Requesting"
    /\ ctxArgs = [called |-> TRUE, workspace_path |-> "/w",
                  selected_files |-> <<>>]
    /\ context.workspace_path = "/w"
    /\ context.selected_files = <<>>
    /\ cmd.prompt = BasePrompt \o "\n\nCurrent workspace: /w"

\* C17: the prompt is the base instruction, the workspace section only if a
\* workspace path is set, the selected-files section only if files are
\* selected and the last-command section only if there is a last command,
\* in this order; a context without workspace path gives a prompt without
\* workspace section.
C17_SectionsOnlyIfSet ==
    [][PromptAssembled
        => cmd'.prompt =
             BasePrompt
               \o (IF context.set /\ context.workspace_path # None
                   THEN WorkspaceSection(context.workspace_path) ELSE "")
               \o (IF context.set
                   THEN SelectedSection(context.selected_files) ELSE "")
               \o (IF context.set
                   THEN LastCommandSection(context.last_command)
                   ELSE "")]_vars

\* C20: a finished listing of /w has yielded exactly the entries that could
\* be stat'ed when their turn came and that are not hidden, or all of those
\* when include_hidden is set; it has not raised.
C20_ListsExactlyStatable ==
    lister.done =>
        /\ fsResult.outcome = "ok"
        /\ lister.yielded = {p \in lister.statable :
                                lister.include_hidden \/ p \notin HiddenFiles}

\* C13: a root is registered and watched at most once: a start_monitoring
\* that succeeds leaves its root registered with a watch installed, every
\* registered root has a watch, and a call for a root that is already
\* registered asks the observer for nothing and changes nothing.
C13_StartMonitoringIdempotent ==
    [][/\ monitored_paths' \subseteq observer'.watches
       /\ (monResult' # monResult /\ monResult'.op = "start_monitoring")
            => /\ monResult'.outcome = "ok"
                    => /\ monResult'.path \in monitored_paths'
                       /\ monResult'.path \in observer'.watches
               /\ monResult'.wasRegistered
                    => /\ monResult'.outcome = "ok"
                       /\ ~monResult'.scheduled
                       /\ UNCHANGED <<observer, monitored_paths>>]_vars

\* the second of two calls for one root, with another root registered too
C13_Witness ==
    /\ monResult.op = "start_monitoring"
    /\ monResult.path = "/w"
    /\ monResult.wasRegistered
    /\ monResult.outcome = "ok"
    /\ monitored_paths = {"/w", "/v"}
    /\ observer.watches = {"/w", "/v"}

\* C14: cleanup() succeeds in every lifecycle state and leaves no root
\* registered and no watch installed on the observer; no change is ever
\* delivered for a root that is not registered, also not after a later
\* initialize().
C14_CleanupRemovesWatches ==
    /\ monResult.op = "cleanup"
          => /\ monResult.outcome = "ok"
             /\ monitored_paths = {}
             /\ observer.watches = {}
    /\ lastEvent # NoEvent => lastEvent.registered

\* C18: start_monitoring(P) ends in FileNotFoundError when P does not exist
\* and in NotADirectoryError when P is no directory, and then neither the
\* registered roots nor the observer's watches change.
C18_StartMonitoringRejects ==
    [][(monResult' # monResult /\ monResult'.op = "start_monitoring")
        => /\ (monResult'.path \notin Dirs /\ ~Exists(monResult'.path))
                => /\ monResult'.outcome = "FileNotFoundError"
                   /\ UNCHANGED <<observer, monitored_paths>>
           /\ (monResult'.path \notin Dirs /\ Exists(monResult'.path))
                => /\ monResult'.outcome = "NotADirectoryError"
                   /\ UNCHANGED <<observer, monitored_paths>>]_vars

\* a file was refused while a directory is being monitored
C18_Witness ==
    /\ monResult.op = "start_monitoring"
    /\ monResult.path = "/w/a"
    /\ monResult.outcome = "NotADirectoryError"
    /\ monitored_paths = {"/w"}
    /\ observer.watches = {"/w"}

\* C19: stop_monitoring(P) returns; when P is registered it removes the
\* registration and the watch of P and of no other root, and when P is not
\* registered it changes nothing.
C19_StopMonitoringRemoves ==
    [][(monResult' # monResult /\ monResult'.op = "stop_monitoring")
        => /\ monResult'.outcome = "ok"
           /\ IF monResult'.path \in monitored_paths
              THEN /\ monitored_paths' = monitored_paths \ {monResult'.path}
                   /\ observer'.watches = observer.watches \ {monResult'.path}
              ELSE UNCHANGED <<observer, monitored_paths>>]_vars

\* C21: the balance of the limiter is never below 0.
C21_BalanceNonNegative == tokens >= 0

\* C22: the balance of the limiter never exceeds its capacity, however long
\* the time between two refills: neither the balance a step leaves behind
\* nor the balance from which a returning acquire() took its token.
C22_BalanceAtMostCapacity ==
    [][/\ tokens' <= Capacity * TokenUnit
       /\ ledger'.returned # ledger.returned
            => tokens' + TokenUnit <= Capacity * TokenUnit]_vars

\* a call that found the bucket drained more than a minute after the last
\* refill: the refill was cut at the capacity and one token was spent
C22_Witness ==
    /\ last_update = clock
    /\ clock > TicksPerMinute
    /\ tokens = (Capacity - 1) * TokenUnit
    /\ Len(acqLog) > Capacity

\* the callers inside the critical section of acquire()
InCriticalSection == {p \in Callers : acq[p].pc = "sleeping"}

\* C23: at most one caller at a time is inside the critical section, the
\* sleep included, and only that caller changes the balance and the refill
\* time; every acquire() that returns takes exactly one token, so that the
\* balance is the initial balance plus all refills minus one token for each
\* acquire() that has returned.
C23_NoDoubleSpend ==
    [][/\ Cardinality(InCriticalSection') <= 1
       /\ \A p \in Callers : acq'[p].pc = "sleeping" <=> lockHolder' = p
       /\ (lockHolder # 0 /\ <<tokens, last_update>>' # <<tokens, last_update>>)
            => acq'[lockHolder] # acq[lockHolder]
       /\ ledger'.returned # ledger.returned
            => /\ ledger'.returned = ledger.returned + 1
               /\ tokens' = tokens + (ledger'.refilled - ledger.refilled)
                                   - TokenUnit
       /\ tokens' = Capacity * TokenUnit + ledger'.refilled
                        - ledger'.returned * TokenUnit]_vars

\* one caller asleep in the critical section on a drained bucket, the other
\* waiting for the lock, after more returns than the bucket held tokens
C23_Witness ==
    /\ tokens <= 0
    /\ lockHolder # 0
    /\ waitQ # <<>>
    /\ ledger.returned > Capacity
    /\ ledger.refilled > 0

\* C24: every acquire() that was called returns, also when several callers
\* wait at once on a drained bucket.
C24_EveryAcquireReturns ==
    \A p \in Callers : (acq[p].pc # "idle") ~> (acq[p].pc = "idle")

\* a drained bucket with every caller inside acquire(): one asleep with the
\* lock, the others queued behind it
C24_Witness ==
    /\ tokens <= 0
    /\ \E p \in Callers : acq[p].pc = "sleeping"
    /\ Len(waitQ) = NumCallers - 1

\* a step that is a successful write_file(p) or delete_file(p), a
\* clear_metadata_cache() or a cleanup()
DropsEntry(p) ==
    \/ /\ fsResult'.op \in {"write_file", "delete_file"}
       /\ fsResult'.path = p
       /\ fsResult'.outcome = "ok"
       /\ UNCHANGED <<monResult, lastEvent>>
    \/ /\ fsResult'.op = "clear_metadata_cache"
       /\ UNCHANGED <<monResult, lastEvent>>
    \/ /\ monResult'.op = "cleanup"
       /\ UNCHANGED <<fsResult, lastEvent, disk>>

\* C25: a change reported to the handler, of a file or of a directory,
\* leaves the cache, the registered roots and the observer as they are and
\* is notified exactly when it is the change of a file; a cached entry is
\* changed or dropped by no step but a write_file or delete_file of its
\* path, clear_metadata_cache and cleanup, whatever other programs do to
\* the file.
C25_EventsLeaveCoreState ==
    [][/\ lastEvent' # lastEvent
            => /\ UNCHANGED <<metadata_cache, monitored_paths, observer,
                              fsIsInit, disk, fsResult, monResult>>
               /\ lastEvent'.notified <=> ~lastEvent'.is_directory
       /\ \A p \in Files :
            (metadata_cache[p].cached /\ metadata_cache'[p] # metadata_cache[p])
                => DropsEntry(p)]_vars

\* the change of a file of the watched /w was notified while the cache
\* holds what /w/a was before another program rewrote it
C25_Witness ==
    /\ metadata_cache["/w/a"].cached
    /\ Exists("/w/a")
    /\ disk["/w/a"].size # metadata_cache["/w/a"].size
    /\ lastEvent.root = "/w"
    /\ lastEvent.registered
    /\ lastEvent.notified

=============================================================================
